---------------------------- MODULE Spec2Model ----------------------------
(***************************************************************************)
(* Model of synchronized_lights.py: the per-block light controller with    *)
(* its adaptive thresholds, and the cached light sequence that is loaded   *)
(* at the start of a run and stored at the end of a fresh run.             *)
(*                                                                         *)
(* Thresholds are exact rationals [n, d] (value n/d).  The code keeps them *)
(* as Python floats; the literals 0.6, 1.2 and 0.8 are modelled as 3/5,    *)
(* 6/5 and 4/5.                                                            *)
(***************************************************************************)
EXTENDS Integers, Naturals, Sequences, FiniteSets, TLC

(* ---------------------------- bounds ----------------------------------- *)
\* blocks in the audio source (readframes returns '' after that many)
MaxBlocks == 2
\* runs of the script against the same source
MaxRuns == 2
\* threshold multiplications per channel explored by the controller spec
MaxSteps == 3

(* ------------------------ program constants ---------------------------- *)
\* range(0,8): the eight light channels
NumChannels == 8
\* limit = [5,5,5,5,5,5,5,5]
InitLimit == 5
\* if offct[i] > 10
OffRun == 10
\* matrix.clip(0,100)
Ceiling == 100

Channels == 1..NumChannels

\* The band values fed to the controller: silence, the initial threshold,
\* the threshold after one growth, and the ceiling.
Bands == {0, 5, 6, Ceiling}

\* Two groups of channels receive independent band values in a block.
LowChannels == {1, 2, 3}

\* The band vectors calculate_levels may return for a block.
Inputs(S) ==
  { [i \in Channels |-> IF i \in LowChannels THEN a ELSE b] : a \in S, b \in S }

\* the blocks fed to the controller on its own
BandVectors == Inputs(Bands)

\* the blocks of the audio source of a whole run: silent or loud bands
SourceVectors == Inputs({0, Ceiling})

(* --------------------------- band analysis ----------------------------- *)
\* chunk = 4096
chunk == 4096

\* the frequency cut-points of the eight bands (lines 195-202)
BandEdges == << 0, 156, 313, 625, 1250, 2500, 5000, 10000, 15000 >>

\* the formats of the audio sources played: CD stereo, and 8 kHz mono
Formats == { [sample_rate |-> 44100, no_channels |-> 2],
             [sample_rate |-> 8000, no_channels |-> 1] }

\* int(2*chunk*val/sample_rate): the index in power of a frequency
piff(val, sample_rate) == (2 * chunk * val) \div sample_rate

\* len(power): a block of chunk frames holds chunk*no_channels samples; rfft
\* returns half as many values plus one, and the last one is deleted
PowerLen(fmt) == (chunk * fmt.no_channels) \div 2

\* power[piff(lo):piff(hi)] is an empty slice
EmptyBand(i, fmt) ==
  LET lo == piff(BandEdges[i], fmt.sample_rate)
      hi == piff(BandEdges[i + 1], fmt.sample_rate)
  IN  ~(lo < hi /\ lo < PowerLen(fmt))

\* np.mean of an empty slice is nan, and stays nan through the weighting
\* and the clip; it is written -1 here, for which, as for nan, both
\* comparisons of the threshold loop are false
NaN == -1

\* calculate_levels: the band values of a block whose spectrum averages to
\* m, in the given format
calculate_levels(m, fmt) ==
  [i \in Channels |-> IF EmptyBand(i, fmt) THEN NaN ELSE m[i]]

(* --------------------- threshold arithmetic ---------------------------- *)
Rat(n, d) == [n |-> n, d |-> d]

\* q * (a/b)
Times(q, a, b) == Rat(q.n * a, q.d * b)

\* the comparison with 1.6 in the place of 0.6
BelowScaledWide(q, m) == q.n * 5 < 8 * m * q.d

\* the comparison with <= in the place of <
BelowOrEqualScaled(q, m) == q.n * 5 <= 3 * m * q.d

\* limit[i] < matrix[i] * 0.6
BelowScaled(q, m) == q.n * 5 < 3 * m * q.d

\* a >= comparison in the place of the strict one
ExceedsOrEqual(m, q) == m * q.d >= q.n

\* matrix[i] > limit[i]
Exceeds(m, q) == m * q.d > q.n

\* limit[i] * 1.2
Grow(q) == Times(q, 6, 5)

\* an additive decay step in the place of the multiplicative one
DecayBySubtract(q) == Rat(q.n - 4 * q.d, q.d)

\* the growth factor in the place of the decay factor
DecayByGrowth(q) == Times(q, 6, 5)

\* limit[i] * 0.8
Decay(q) == Times(q, 4, 5)

\* the upward recalibration of one channel (lines 232-233)
Recalibrate(q, m) == IF BelowScaled(q, m) THEN Grow(q) ELSE q

\* a pass that decays when the counter reaches the run length (>= for >)
ChannelUpdateEarly(q, off, m) ==
  LET q1 == Recalibrate(q, m)
  IN  IF Exceeds(m, q1)
        THEN [limit |-> q1, offct |-> 0, on |-> TRUE]
        ELSE IF off + 1 >= OffRun
               THEN [limit |-> Decay(q1), offct |-> 0, on |-> FALSE]
               ELSE [limit |-> q1, offct |-> off + 1, on |-> FALSE]

\* a pass that resets the counter after the run length without a decay
ChannelUpdateNoDecay(q, off, m) ==
  LET q1 == Recalibrate(q, m)
  IN  IF Exceeds(m, q1)
        THEN [limit |-> q1, offct |-> 0, on |-> TRUE]
        ELSE IF off + 1 > OffRun
               THEN [limit |-> q1, offct |-> 0, on |-> FALSE]
               ELSE [limit |-> q1, offct |-> off + 1, on |-> FALSE]

\* a pass whose on branch leaves the off counter as it is
ChannelUpdateNoReset(q, off, m) ==
  LET q1 == Recalibrate(q, m)
  IN  IF Exceeds(m, q1)
        THEN [limit |-> q1, offct |-> off, on |-> TRUE]
        ELSE IF off + 1 > OffRun
               THEN [limit |-> Decay(q1), offct |-> 0, on |-> FALSE]
               ELSE [limit |-> q1, offct |-> off + 1, on |-> FALSE]

\* One channel's pass through the body of the threshold loop: the new
\* threshold, the new off counter and the on/off decision.
ChannelUpdate(q, off, m) ==
  LET q1 == Recalibrate(q, m)
  IN  IF Exceeds(m, q1)
        THEN [limit |-> q1, offct |-> 0, on |-> TRUE]
        ELSE IF off + 1 > OffRun
               THEN [limit |-> Decay(q1), offct |-> 0, on |-> FALSE]
               ELSE [limit |-> q1, offct |-> off + 1, on |-> FALSE]

\* number of multiplications a threshold went through: d = 5^k
RECURSIVE Pow(_, _)
Pow(b, k) == IF k = 0 THEN 1 ELSE b * Pow(b, k - 1)

\* the denominator of a threshold after MaxSteps multiplications
MaxDen == Pow(5, MaxSteps)

(* ------------------------- the cache file ----------------------------- *)
\* csv line terminator
EOL == "\r\n"

\* csv delimiter (delimiter=',')
Comma == ","

\* rows joined without the line terminator
RECURSIVE JoinFields(_)
JoinFields(r) ==
  IF Len(r) = 0 THEN << >>
  ELSE IF Len(r) = 1 THEN << r[1] >>
  ELSE << r[1], Comma >> \o JoinFields(Tail(r))

\* a row written without its line terminator
WriteRowNoEOL(r) == JoinFields(r)

\* writer.writerow: the fields joined by the delimiter, then the terminator
WriteRow(r) == JoinFields(r) \o << EOL >>

\* the pieces of s between occurrences of sep
RECURSIVE Split(_, _, _)
Split(s, sep, cur) ==
  IF s = << >> THEN << cur >>
  ELSE IF Head(s) = sep THEN << cur >> \o Split(Tail(s), sep, << >>)
  ELSE Split(Tail(s), sep, Append(cur, Head(s)))

\* the characters of a field as one string
RECURSIVE Concat(_)
Concat(cs) == IF cs = << >> THEN "" ELSE Head(cs) \o Concat(Tail(cs))

\* the lines of the file; a terminator at the end of the file starts no line
Lines(b) ==
  LET ch == Split(b, EOL, << >>)
  IN  IF ch[Len(ch)] = << >> THEN SubSeq(ch, 1, Len(ch) - 1) ELSE ch

\* the fields of one line; an empty line is an empty row
Fields(line) ==
  IF line = << >> THEN << >>
  ELSE LET parts == Split(line, Comma, << >>)
       IN  [k \in 1..Len(parts) |-> Concat(parts[k])]

\* csv.reader over the decompressed file: one list of strings per line
ReadRows(b) ==
  LET ls == Lines(b) IN [k \in 1..Len(ls) |-> Fields(ls[k])]

\* int(entry[i])
IntOf(f) == CASE f = "0" -> 0 [] f = "1" -> 1

\* the row appended to the cache for a block: '1' for on, '0' for off
Entry(on) == [i \in Channels |-> IF on[i] THEN "1" ELSE "0"]

\* the truth value of the field's string in the place of its integer value
VectorOfStrings(entry) == [i \in Channels |-> entry[i] # ""]

\* the on/off vector a cached row stands for: if int(entry[i])
Vector(entry) == [i \in Channels |-> IntOf(entry[i]) # 0]

\* no cache file beside the source
NoFile == [exists |-> FALSE, ok |-> FALSE, bytes |-> << >>]

AllOff == [i \in Channels |-> FALSE]

(* ------------------------------ state ---------------------------------- *)
VARIABLES
  pc,          \* position of the script
  limit,       \* limit[i]: threshold of channel i
  offct,       \* offct[i]: consecutive off blocks of channel i
  matrix,      \* the band vector of the last analysed block
  lights,      \* GPIO output of each channel
  cache,       \* the rows read from, or to be written to, the cache file
  cache_found, \* the mode of the run: TRUE is replay
  row,         \* index of the block being processed
  disk,        \* the cache file: exists, ok (gzip container complete), bytes
  written,     \* rows written so far by writerows
  nblocks,     \* number of blocks in the audio source
  audio,       \* the band vectors of the source's blocks analysed so far
  run,         \* number of the current run
  loaded,      \* outcome of this run's cache load
  emitted,     \* the channel vector after each block of this run
  branches,    \* the branch of the loop body that handled each block
  fftCalls,    \* calls of calculate_levels in this run
  failedAt,    \* where the run ended abnormally
  disk0,       \* the cache file when this run started
  prev,        \* the previous run; its record and output if it completed
  format,      \* sample_rate and no_channels of the audio source
  held         \* << c >> once the source holds the band vector c, else << >>

vars == <<pc, limit, offct, matrix, lights, cache, cache_found, row, disk,
          written, nblocks, audio, run, loaded, emitted, branches, fftCalls,
          failedAt, disk0, prev, format, held>>

NoPrev == [pc |-> "none", loaded |-> "none", cache_found |-> FALSE,
           cache |-> << >>, emitted |-> << >>]

\* the state of the script when a run starts (lines 139-146, 168-169, 210)
StartOfRun ==
  /\ pc = "load"
  /\ limit = [i \in Channels |-> Rat(InitLimit, 1)]
  /\ offct = [i \in Channels |-> 0]
  /\ matrix = [i \in Channels |-> 0]
  /\ lights = AllOff
  /\ cache = << >>
  /\ cache_found = FALSE
  /\ row = 0
  /\ written = 0
  /\ loaded = "none"
  /\ emitted = << >>
  /\ branches = << >>
  /\ fftCalls = 0
  /\ failedAt = "none"

Init ==
  /\ StartOfRun
  /\ disk = NoFile
  /\ disk0 = NoFile
  /\ nblocks \in 0..MaxBlocks
  /\ audio = << >>
  /\ run = 1
  /\ prev = NoPrev
  /\ format \in Formats
  /\ held = << >>

(* --------------------------- cache load -------------------------------- *)
\* gzip.open raises IOError: no file
LoadAbsent ==
  /\ ~disk.exists
  /\ cache' = << >>
  /\ cache_found' = FALSE
  /\ loaded' = "absent"
  /\ pc' = "loop"
  /\ UNCHANGED failedAt

\* the file is read to its end
LoadOk ==
  /\ disk.exists /\ disk.ok
  /\ cache' = ReadRows(disk.bytes)
  /\ cache_found' = TRUE
  /\ loaded' = "ok"
  /\ pc' = "loop"
  /\ UNCHANGED failedAt

\* the container is damaged: IOError after k rows were appended to cache
LoadIOError ==
  /\ disk.exists /\ ~disk.ok
  /\ \E k \in 0..Len(ReadRows(disk.bytes)) :
       cache' = SubSeq(ReadRows(disk.bytes), 1, k)
  /\ cache_found' = FALSE
  /\ loaded' = "ioerror"
  /\ pc' = "loop"
  /\ UNCHANGED failedAt

\* the container is damaged: an exception that is not an IOError
LoadCrash ==
  /\ disk.exists /\ ~disk.ok
  /\ \E k \in 0..Len(ReadRows(disk.bytes)) :
       cache' = SubSeq(ReadRows(disk.bytes), 1, k)
  /\ cache_found' = FALSE
  /\ loaded' = "error"
  /\ failedAt' = "load"
  /\ pc' = "crashed"

Load ==
  /\ pc = "load"
  /\ (LoadAbsent \/ LoadOk \/ LoadIOError \/ LoadCrash)
  /\ UNCHANGED <<limit, offct, matrix, lights, row, disk, written, nblocks,
                 audio, run, emitted, branches, fftCalls, disk0, prev,
                 format, held>>

(* --------------------------- the block loop ---------------------------- *)
\* The threshold loop of one fresh block (lines 231-246).
ThresholdLoop(m) ==
  \E u \in { [i \in Channels |-> ChannelUpdate(limit[i], offct[i], m[i])] } :
      /\ matrix' = m
      /\ limit' = [i \in Channels |-> u[i].limit]
      /\ offct' = [i \in Channels |-> u[i].offct]
      /\ lights' = [i \in Channels |-> u[i].on]

\* row = row + 1 after the body, with the record of what the block did
EndOfBlock(branch) ==
  /\ row' = row + 1
  /\ emitted' = Append(emitted, lights')
  /\ branches' = Append(branches, branch)

\* a replay branch that analyses the block before it uses the cached row
ReplayBlockAnalyses ==
  /\ pc = "loop" /\ row < nblocks
  /\ cache_found /\ row < Len(cache)
  /\ matrix' \in SourceVectors
  /\ fftCalls' = fftCalls + 1
  /\ lights' = Vector(cache[row + 1])
  /\ EndOfBlock("replay")
  /\ UNCHANGED <<pc, limit, offct, cache, cache_found, disk, written,
                 nblocks, audio, run, loaded, failedAt, disk0, prev,
                 format, held>>

\* replay branch, a cached row is left (lines 217-223)
ReplayBlock ==
  /\ pc = "loop" /\ row < nblocks
  /\ cache_found /\ row < Len(cache)
  /\ lights' = Vector(cache[row + 1])
  /\ EndOfBlock("replay")
  /\ UNCHANGED <<pc, limit, offct, matrix, cache, cache_found, disk, written,
                 nblocks, audio, run, loaded, fftCalls, failedAt, disk0, prev,
                 format, held>>

\* a replay branch that switches to fresh computation when the rows run out
ReplayRanOutFallsBack ==
  /\ pc = "loop" /\ row < nblocks
  /\ cache_found /\ ~(row < Len(cache))
  /\ cache_found' = FALSE
  /\ lights' = lights
  /\ EndOfBlock("ranout")
  /\ UNCHANGED <<pc, limit, offct, matrix, cache, disk, written,
                 nblocks, audio, run, loaded, fftCalls, failedAt, disk0, prev,
                 format, held>>

\* a replay branch that switches every channel off when the rows run out
ReplayRanOutAllOff ==
  /\ pc = "loop" /\ row < nblocks
  /\ cache_found /\ ~(row < Len(cache))
  /\ lights' = AllOff
  /\ EndOfBlock("ranout")
  /\ UNCHANGED <<pc, limit, offct, matrix, cache, cache_found, disk, written,
                 nblocks, audio, run, loaded, fftCalls, failedAt, disk0, prev,
                 format, held>>

\* replay branch, the cached rows ran out (lines 224-225)
ReplayRanOut ==
  /\ pc = "loop" /\ row < nblocks
  /\ cache_found /\ ~(row < Len(cache))
  /\ lights' = lights
  /\ EndOfBlock("ranout")
  /\ UNCHANGED <<pc, limit, offct, matrix, cache, cache_found, disk, written,
                 nblocks, audio, run, loaded, fftCalls, failedAt, disk0, prev,
                 format, held>>

\* fresh branch (lines 228-247): analyse the block, update the thresholds,
\* switch the lights and append the entry to the cache
FreshBlock ==
  /\ pc = "loop" /\ row < nblocks
  /\ ~cache_found
  /\ \E m \in SourceVectors :
       /\ row < Len(audio) => m = audio[row + 1]
       /\ audio' = IF row < Len(audio) THEN audio ELSE Append(audio, m)
       /\ ThresholdLoop(calculate_levels(m, format))
  /\ fftCalls' = fftCalls + 1
  /\ cache' = Append(cache, Entry(lights'))
  /\ EndOfBlock("fresh")
  /\ UNCHANGED <<pc, cache_found, disk, written, nblocks, run, loaded,
                 failedAt, disk0, prev,
                 format, held>>

\* an end of the loop that goes on to the store in either mode
EndOfStreamAlwaysStores ==
  /\ pc = "loop" /\ row = nblocks
  /\ pc' = "store"
  /\ UNCHANGED <<limit, offct, matrix, lights, cache, cache_found, row, disk,
                 written, nblocks, audio, run, loaded, emitted, branches,
                 fftCalls, failedAt, disk0, prev,
                 format, held>>

\* readframes returned '': the loop ends; line 253 decides on the store
EndOfStream ==
  /\ pc = "loop" /\ row = nblocks
  /\ pc' = IF cache_found THEN "off" ELSE "store"
  /\ UNCHANGED <<limit, offct, matrix, lights, cache, cache_found, row, disk,
                 written, nblocks, audio, run, loaded, emitted, branches,
                 fftCalls, failedAt, disk0, prev,
                 format, held>>

(* --------------------------- cache store ------------------------------- *)
\* gzip.open(cache_filename, 'wb'): the file is created or truncated
StoreOpen ==
  /\ pc = "store"
  /\ disk' = [exists |-> TRUE, ok |-> FALSE, bytes |-> << >>]
  /\ written' = 0
  /\ pc' = "write"
  /\ UNCHANGED <<limit, offct, matrix, lights, cache, cache_found, row,
                 nblocks, audio, run, loaded, emitted, branches, fftCalls,
                 failedAt, disk0, prev,
                 format, held>>

\* gzip.open raises IOError: nothing catches it
StoreOpenFail ==
  /\ pc = "store"
  /\ failedAt' = "store"
  /\ pc' = "crashed"
  /\ UNCHANGED <<limit, offct, matrix, lights, cache, cache_found, row, disk,
                 written, nblocks, audio, run, loaded, emitted, branches,
                 fftCalls, disk0, prev,
                 format, held>>

\* writerows: the next row goes to the file
StoreWrite ==
  /\ pc = "write" /\ written < Len(cache)
  /\ disk' = [disk EXCEPT !.bytes = @ \o WriteRow(cache[written + 1])]
  /\ written' = written + 1
  /\ UNCHANGED <<pc, limit, offct, matrix, lights, cache, cache_found, row,
                 nblocks, audio, run, loaded, emitted, branches, fftCalls,
                 failedAt, disk0, prev,
                 format, held>>

\* a write raises IOError: the with block closes the file, which may or may
\* not complete the container; nothing catches the exception
StoreWriteFail ==
  /\ pc = "write" /\ written < Len(cache)
  /\ \E closed \in BOOLEAN : disk' = [disk EXCEPT !.ok = closed]
  /\ failedAt' = "write"
  /\ pc' = "crashed"
  /\ UNCHANGED <<limit, offct, matrix, lights, cache, cache_found, row,
                 written, nblocks, audio, run, loaded, emitted, branches,
                 fftCalls, disk0, prev,
                 format, held>>

\* all rows written: the with block closes the file (line 257 logs)
StoreClose ==
  /\ pc = "write" /\ written = Len(cache)
  /\ disk' = [disk EXCEPT !.ok = TRUE]
  /\ pc' = "off"
  /\ UNCHANGED <<limit, offct, matrix, lights, cache, cache_found, row,
                 written, nblocks, audio, run, loaded, emitted, branches,
                 fftCalls, failedAt, disk0, prev,
                 format, held>>

\* TurnOffLights() at the end of the script (line 260)
TurnOffLights ==
  /\ pc = "off"
  /\ lights' = AllOff
  /\ pc' = "done"
  /\ UNCHANGED <<limit, offct, matrix, cache, cache_found, row, disk,
                 written, nblocks, audio, run, loaded, emitted, branches,
                 fftCalls, failedAt, disk0, prev,
                 format, held>>

(* --------------------------- interruption ------------------------------ *)
\* an interruption of the loop that is caught and goes on to the store
InterruptThenStore ==
  /\ pc \in {"loop", "store", "write"}
  /\ \E kind \in {"signal", "kill"} :
       disk' = IF pc = "write" /\ kind = "signal"
                 THEN [disk EXCEPT !.ok = TRUE]
                 ELSE disk
  /\ failedAt' = pc
  /\ pc' = IF pc = "loop" /\ ~cache_found THEN "store" ELSE "aborted"
  /\ UNCHANGED <<limit, offct, matrix, lights, cache, cache_found, row,
                 written, nblocks, audio, run, loaded, emitted, branches,
                 fftCalls, disk0, prev,
                 format, held>>

\* The process is interrupted.  A signal raises KeyboardInterrupt, which
\* leaves a with block through the close of the file; a kill leaves the
\* file as it is.  Nothing after the interrupted statement is executed.
Interrupt ==
  /\ pc \in {"loop", "store", "write"}
  /\ \E kind \in {"signal", "kill"} :
       disk' = IF pc = "write" /\ kind = "signal"
                 THEN [disk EXCEPT !.ok = TRUE]
                 ELSE disk
  /\ failedAt' = pc
  /\ pc' = "aborted"
  /\ UNCHANGED <<limit, offct, matrix, lights, cache, cache_found, row,
                 written, nblocks, audio, run, loaded, emitted, branches,
                 fftCalls, disk0, prev,
                 format, held>>

\* The script is started again on the same source (lines 139-146, 168-169,
\* 210 set the state the run starts from).
NextRun ==
  /\ pc \in {"done", "crashed", "aborted"}
  /\ run < MaxRuns
  /\ run' = run + 1
  /\ prev' = IF pc = "done"
               THEN [pc |-> pc, loaded |-> loaded, cache_found |-> cache_found,
                     cache |-> cache, emitted |-> emitted]
               ELSE [pc |-> pc, loaded |-> loaded, cache_found |-> cache_found,
                     cache |-> << >>, emitted |-> << >>]
  /\ disk0' = disk
  /\ pc' = "load"
  /\ limit' = [i \in Channels |-> Rat(InitLimit, 1)]
  /\ offct' = [i \in Channels |-> 0]
  /\ matrix' = [i \in Channels |-> 0]
  /\ lights' = AllOff
  /\ cache' = << >>
  /\ cache_found' = FALSE
  /\ row' = 0
  /\ written' = 0
  /\ loaded' = "none"
  /\ emitted' = << >>
  /\ branches' = << >>
  /\ fftCalls' = 0
  /\ failedAt' = "none"
  /\ UNCHANGED <<disk, nblocks, audio, format, held>>

Next ==
  \/ Load
  \/ ReplayBlock
  \/ ReplayRanOut
  \/ FreshBlock
  \/ EndOfStream
  \/ StoreOpen
  \/ StoreOpenFail
  \/ StoreWrite
  \/ StoreWriteFail
  \/ StoreClose
  \/ TurnOffLights
  \/ Interrupt
  \/ NextRun

Spec == Init /\ [][Next]_vars

(* ---------------------- the controller on its own ---------------------- *)
\* A fresh run of unbounded length, after the load found no cache.
InitCtl ==
  /\ pc = "loop"
  /\ limit = [i \in Channels |-> Rat(InitLimit, 1)]
  /\ offct = [i \in Channels |-> 0]
  /\ matrix = [i \in Channels |-> 0]
  /\ lights = AllOff
  /\ cache = << >>
  /\ cache_found = FALSE
  /\ row = 0
  /\ written = 0
  /\ loaded = "absent"
  /\ emitted = << >>
  /\ branches = << >>
  /\ fftCalls = 0
  /\ failedAt = "none"
  /\ disk = NoFile
  /\ disk0 = NoFile
  /\ nblocks = MaxBlocks
  /\ audio = << >>
  /\ run = 1
  /\ prev = NoPrev
  /\ format = [sample_rate |-> 44100, no_channels |-> 2]
  /\ held = << >>

\* The threshold loop applied to one more block of the fresh run; the
\* thresholds explored are those of at most MaxSteps multiplications.
ControllerUpdate ==
  /\ pc = "loop" /\ ~cache_found
  /\ \E m \in BandVectors :
       /\ ThresholdLoop(m)
       /\ \A i \in Channels : limit'[i].d <= MaxDen
  /\ UNCHANGED <<pc, cache, cache_found, row, disk, written, nblocks, audio,
                 run, loaded, emitted, branches, fftCalls, failedAt, disk0,
                 prev,
                 format, held>>

NextCtl == ControllerUpdate

SpecCtl == InitCtl /\ [][NextCtl]_vars

(* ------------------- the controller on a held source ------------------- *)
\* thresholds under silence are followed until all are below this value
Floor == 3

\* every channel at zero: a block of silence
Silence == [i \in Channels |-> 0]

\* the band vectors a source may hold: silence, or every band positive (a
\* band held at the ceiling raises its threshold past the integer range)
HeldVectors == {Silence} \cup Inputs({5, 6, 10})

\* q >= Floor
AtOrAboveFloor(q) == q.n >= Floor * q.d

\* Blocks of any level, all bands alike, before the source holds a vector.
LeadIn ==
  /\ held = << >>
  /\ ControllerUpdate
  /\ \A i \in Channels : matrix'[i] = matrix'[1]

\* The threshold loop on one more block of a source that holds the vector c
\* from some block onward.
HoldUpdate ==
  /\ pc = "loop" /\ ~cache_found
  /\ \E c \in HeldVectors :
       /\ held \in { << >>, << c >> }
       /\ held' = << c >>
       /\ c = Silence => \E i \in Channels : AtOrAboveFloor(limit[i])
       /\ ThresholdLoop(c)
  /\ UNCHANGED <<pc, cache, cache_found, row, disk, written, nblocks, audio,
                 run, loaded, emitted, branches, fftCalls, failedAt, disk0,
                 prev, format>>

NextHold == LeadIn \/ HoldUpdate

\* the loop takes the next block as long as the source delivers one
SpecHold == InitCtl /\ [][NextHold]_vars /\ WF_vars(HoldUpdate)

(* ------------------------------ claims --------------------------------- *)

\* C1: every channel's threshold is positive in every state the controller
\* reaches from threshold 5 and counter 0, and one update leaves a threshold
\* as it is or multiplies it by 1.2 or by 0.8.
C1_ThresholdPositive ==
  /\ [](\A i \in Channels : limit[i].n > 0 /\ limit[i].d > 0)
  /\ [][\A i \in Channels :
          limit'[i] \in { limit[i],
                          Rat(limit[i].n * 6, limit[i].d * 5),
                          Rat(limit[i].n * 4, limit[i].d * 5) }]_vars

\* a threshold that was raised once and decayed once: 5 * 1.2 * 0.8
C1_Witness == \E i \in Channels : limit[i] = Rat(120, 25)

\* C2: a run that finds no cache runs fresh and leaves a complete cache when
\* it is done; the run that follows it replays, and after each block its
\* channels are as the first run set them for that block.
C2_FreshThenReplay ==
  /\ (pc # "load" /\ loaded = "absent") =>
        /\ ~cache_found
        /\ \A b \in DOMAIN branches : branches[b] = "fresh"
  /\ (pc = "done" /\ loaded = "absent") => (disk.exists /\ disk.ok)
  /\ (pc # "load" /\ prev.pc = "done" /\ prev.loaded = "absent") =>
        /\ cache_found
        /\ \A b \in DOMAIN emitted :
             /\ branches[b] = "replay"
             /\ emitted[b] = prev.emitted[b]

\* the second run replayed two blocks, with a channel on and a channel off
C2_Witness ==
  /\ pc = "done" /\ prev.pc = "done" /\ prev.loaded = "absent"
  /\ Len(emitted) = 2
  /\ \E b \in DOMAIN emitted : emitted[b][1] /\ ~emitted[b][NumChannels]

\* C3: in replay mode the channels after a block with a cached row are that
\* row, calculate_levels is never called, and the thresholds and the off
\* counters stay as they were at the start of the run.
C3_ReplayIsLookup ==
  cache_found =>
    /\ fftCalls = 0
    /\ \A i \in Channels : limit[i] = Rat(InitLimit, 1) /\ offct[i] = 0
    /\ \A b \in DOMAIN emitted :
         b <= Len(cache) =>
           \A i \in Channels : emitted[b][i] <=> (cache[b][i] = "1")

\* a replay run that handled two cached rows, not both the same
C3_Witness ==
  /\ cache_found /\ Len(emitted) = 2 /\ Len(cache) >= 2
  /\ emitted[1] # emitted[2]

\* C4: the rows read back from the file a store completed are the rows that
\* were stored, in number, order and value, and the load of the next run
\* returns them.
C4_RoundTrip ==
  /\ (pc \in {"off", "done"} /\ ~cache_found) =>
        /\ disk.exists /\ disk.ok
        /\ ReadRows(disk.bytes) = cache
  /\ (pc # "load" /\ loaded = "ok" /\ prev.pc = "done" /\ ~prev.cache_found) =>
        cache = prev.cache

\* a record of two different rows was stored and loaded by the next run
C4_Witness ==
  /\ pc = "loop" /\ loaded = "ok" /\ prev.pc = "done" /\ ~prev.cache_found
  /\ Len(cache) = 2 /\ cache[1] # cache[2]

\* C5: the mode is what the load decided, and every block of the run was
\* handled by the branch of that mode.
C5_ModeFixed ==
  /\ pc # "load" => (cache_found <=> loaded = "ok")
  /\ \A b \in DOMAIN branches : (branches[b] = "fresh") <=> ~cache_found

\* a replay run that ran out of rows and went on to a further block
C5_Witness ==
  /\ cache_found /\ Len(branches) = 2 /\ branches[1] = "ranout"

\* C6: a run that starts with a damaged cache file is not ended by the load
\* and runs in fresh mode.
C6_CorruptIsAbsent ==
  (pc # "load" /\ disk0.exists /\ ~disk0.ok) =>
     /\ ~(pc = "crashed" /\ failedAt = "load")
     /\ ~cache_found

\* C7: after an interruption of the store, a cache file that loads without
\* error holds the whole record.
C7_StoreAtomic ==
  (pc = "aborted" /\ failedAt = "write" /\ disk.exists /\ disk.ok) =>
     ReadRows(disk.bytes) = cache

\* C8: a failure of the store does not end the run.
C8_StoreFailureNotFatal ==
  pc = "crashed" => failedAt \notin {"store", "write"}

\* C9: the cache file changes only in a fresh run that processed every block
\* of the source; a run aborted in the loop leaves the file as it found it
\* and has written no row.
C9_NoPartialStore ==
  /\ disk # disk0 =>
        /\ ~cache_found
        /\ row = nblocks
        /\ fftCalls = nblocks
  /\ written > 0 => (~cache_found /\ row = nblocks)
  /\ (pc = "aborted" /\ failedAt = "loop") => (disk = disk0 /\ written = 0)

\* a fresh run aborted after its first block and before its last
C9_Witness ==
  /\ pc = "aborted" /\ failedAt = "loop" /\ ~cache_found
  /\ row = 1 /\ row < nblocks

\* C10: in one controller update a channel is switched on exactly if its
\* band value is strictly greater than its threshold as it stands after the
\* upward recalibration of that update.
C10_StrictComparison ==
  [][\A i \in Channels :
       LET q == limit[i]
           m == matrix'[i]
           t == IF q.n * 5 < 3 * m * q.d THEN Rat(q.n * 6, q.d * 5) ELSE q
       IN  lights'[i] <=> (m * t.d > t.n)]_vars

\* a channel whose band value equals its threshold was left off
C10_Witness ==
  \E i \in Channels :
    /\ matrix[i] * limit[i].d = limit[i].n
    /\ offct[i] > 0
    /\ ~lights[i]

\* C11: a channel whose band value is not above its threshold and whose
\* counter stands at k < 10 consecutive off blocks keeps its threshold and
\* counts one more; at k = 10, the 11th off block in a row, the threshold is
\* multiplied by 0.8 once and the counter is 0 again.
C11_DecayAtEleventh ==
  [][\A i \in Channels :
       (matrix'[i] * limit[i].d <= limit[i].n) =>
          IF offct[i] < 10
            THEN limit'[i] = limit[i] /\ offct'[i] = offct[i] + 1
            ELSE /\ offct[i] = 10
                 /\ limit'[i] = Rat(limit[i].n * 4, limit[i].d * 5)
                 /\ offct'[i] = 0]_vars

\* the initial threshold after its first decay, the counter back at 0
C11_Witness ==
  \E i \in Channels : limit[i] = Rat(20, 5) /\ offct[i] = 0 /\ ~lights[i]

\* C19: an update that raises a channel's threshold switches the channel on
\* and leaves its counter at 0, so no update both raises and decays a
\* threshold.
C19_GrowthImpliesOn ==
  [][\A i \in Channels :
       /\ limit'[i] = Rat(limit[i].n * 6, limit[i].d * 5) =>
            (lights'[i] /\ offct'[i] = 0)
       /\ limit'[i] # Rat(limit[i].n * 24, limit[i].d * 25)]_vars

\* a channel at the ceiling, switched on, its threshold raised twice
C19_Witness ==
  \E i \in Channels :
    limit[i] = Rat(180, 25) /\ matrix[i] = Ceiling /\ lights[i]

\* C20: every off counter is in 0..10; it is 0 for a channel that is on and
\* for a channel whose threshold the update decayed.
C20_CounterRange ==
  /\ [](\A i \in Channels :
          /\ offct[i] \in 0..10
          /\ lights[i] => offct[i] = 0)
  /\ [][\A i \in Channels :
          limit'[i] = Rat(limit[i].n * 4, limit[i].d * 5) => offct'[i] = 0]_vars

\* one channel at ten off blocks in a row while another is on
C20_Witness ==
  \E i, j \in Channels :
    offct[i] = 10 /\ lights[j] /\ offct[j] = 0

\* C16: a replay block at or beyond the end of the loaded record takes the
\* branch that only logs the warning and leaves the channels as the block
\* before left them; the run is not ended by it and goes on to the last
\* block of the source.
C16_FreezeLastState ==
  cache_found =>
    /\ \A b \in DOMAIN emitted :
         b > Len(cache) =>
           /\ branches[b] = "ranout"
           /\ emitted[b] = IF b = 1 THEN AllOff ELSE emitted[b - 1]
           /\ Len(cache) > 0 =>
                \A i \in Channels : emitted[b][i] <=> (cache[Len(cache)][i] = "1")
    /\ pc # "crashed"
    /\ pc \in {"off", "done"} => row = nblocks

\* the record has one row, with a channel on; the second block froze it
C16_Witness ==
  /\ cache_found /\ Len(cache) = 1 /\ Len(emitted) = 2
  /\ emitted[2][1] /\ ~emitted[2][NumChannels]
  /\ pc = "done"

\* C17: in a fresh run the record has as many rows as blocks were processed,
\* and the record handed to the store has one row per block of the source.
C17_OneRowPerBlock ==
  (pc # "load" /\ ~cache_found) =>
     /\ Len(cache) = row
     /\ pc \in {"store", "write", "off", "done"} => Len(cache) = nblocks

\* C18: the load happens once, at the start of a run and before any block;
\* the store is entered only from the end of the loop of a fresh run, the
\* file changes only there, and a replay run leaves the file as it is.
C18_LoadOnceStoreOnce ==
  [][/\ pc' = "load" => (pc = "load" \/ run' = run + 1)
     /\ (pc = "load" /\ pc' # "load") =>
           (row = 0 /\ loaded = "none" /\ loaded' # "none")
     /\ loaded' # loaded => (pc = "load" \/ run' = run + 1)
     /\ (pc' = "store" /\ pc # "store") =>
           (pc = "loop" /\ row = nblocks /\ ~cache_found)
     /\ pc' = "write" => pc \in {"store", "write"}
     /\ disk' # disk =>
           (pc \in {"store", "write"} /\ ~cache_found /\ row = nblocks)
     /\ cache_found => disk' = disk]_vars

\* a replay run over a stored record came to its end, the file untouched
C18_Witness ==
  /\ pc = "done" /\ cache_found /\ row = 2 /\ Len(cache) = 2
  /\ disk = disk0 /\ written = 0

\* C15: when a band of the source's format is an empty range of the
\* spectrum, no block is analysed and classified by the fresh branch.
C15_DegenerateBandAborts ==
  (\E i \in Channels : EmptyBand(i, format)) =>
     \A b \in DOMAIN branches : branches[b] # "fresh"

C13_QuietChannelRetriggers ==
  \A i \in Channels :
    (held # << >> /\ held[1][i] > 0 /\ ~lights[i]) ~> lights[i]

\* held at 5 under a threshold of 6, the channel came on after one decay
C13_Witness ==
  \E i \in Channels :
    /\ held # << >> /\ held[1][i] = 5
    /\ limit[i] = Rat(120, 25) /\ lights[i]

\* C14: an update of a channel with threshold 5 and band value 10 leaves the
\* threshold at 6, the channel on and its counter at 0; an update multiplies
\* a threshold by 1.2 only if it was below 0.6 times the band value, and
\* never twice.
C14_SingleGrowth ==
  [][\A i \in Channels :
       /\ (limit[i] = Rat(5, 1) /\ matrix'[i] = 10) =>
             (limit'[i] = Rat(30, 5) /\ lights'[i] /\ offct'[i] = 0)
       /\ limit'[i] = Rat(limit[i].n * 6, limit[i].d * 5) =>
             limit[i].n * 5 < 3 * matrix'[i] * limit[i].d
       /\ limit'[i].d \in { limit[i].d, limit[i].d * 5 }]_vars

\* the first block of a source held at 10: threshold 6, channel on
C14_Witness ==
  \E i \in Channels :
    /\ limit[i] = Rat(30, 5) /\ matrix[i] = 10
    /\ lights[i] /\ offct[i] = 0

====
